---- MODULE Spec2Model ----
(***************************************************************************)
(* Model of src/climate_data.py: the ERA5 monthly download / extraction    *)
(* script.  One run of the script is the chain                              *)
(*   Fetch -> Load -> Select -> Extract -> Convert -> Assemble ->           *)
(*   PersistMonthly -> Climatology                                          *)
(* over a file system (raw dataset file, working directory, two CSVs) that  *)
(* survives from one run to the next.                                       *)
(*                                                                          *)
(* Units: coordinates in 1e-4 degree, temperatures in 1e-2 K / 1e-2 degC,   *)
(* precipitation in 1e-4 m (and, after conversion, 1e-4 mm), timestamps in  *)
(* months since January of BaseYear.                                        *)
(***************************************************************************)
EXTENDS Integers, Sequences, FiniteSets, TLC

\* ------------------------------------------------------------------ bounds
\* Longest archive (number of grid entries matching the pattern).
MaxEntries == 3
\* Longest point series drawn for the table stages.
MaxLen == 3
\* Longest coordinate axis drawn for the point selection.
MaxAxis == 3

\* ------------------------------------------------- user parameters (l.30-45)
LatPt == 434292
LonPt == -38314
BaseYear == 1975
KelvinOffset == 27315
MmPerM == 1000
MonthsPerYear == 12

\* ----------------------------------------------------------------- helpers
Abs(x) == IF x < 0 THEN -x ELSE x

RECURSIVE Gcd(_, _)
Gcd(a, b) == IF b = 0 THEN a ELSE Gcd(b, a % b)

RECURSIVE SumSeq(_)
SumSeq(s) == IF s = <<>> THEN 0 ELSE Head(s) + SumSeq(Tail(s))

\* All orders in which a set of files can be enumerated.
Perms(S) ==
    {p \in [1..Cardinality(S) -> S] : \A i, j \in DOMAIN p : p[i] = p[j] => i = j}

\* ------------------------------------------------------------ file system
\* A file name, split the way the glob pattern 'data_stream-*.nc' reads it.
GridName(id) == [stem |-> "data_stream-", id |-> id, ext |-> ".nc"]
OtherName == [stem |-> "readme", id |-> 0, ext |-> ".txt"]

\* glob.glob('data_stream-*.nc')
MatchesPattern(name) == name.stem = "data_stream-" /\ name.ext = ".nc"

NoDs == [coords |-> <<>>, latitude |-> <<>>, longitude |-> <<>>, data_vars |-> <<>>]
NoPt == [coords |-> <<>>, latitude |-> 0, longitude |-> 0, data_vars |-> <<>>]
NoFile == [kind |-> "absent", ds |-> NoDs, entries |-> {}]
NoTable == [exists |-> FALSE, rows |-> <<>>]

\* ------------------------------------------------------- provider replies
TimeAliases == <<"valid_time", "time">>
TempAliases == <<"t2m", "2m_temperature">>
PrecipAliases == <<"tp", "total_precipitation">>

Range(s) == {s[i] : i \in DOMAIN s}

\* The 0.25-degree ERA5 axes inside area = [43.6, -4.0, 43.2, -3.6]:
\* latitude descending, longitude ascending.
EraLat == <<435000, 432500>>
EraLon == <<-40000, -37500>>

\* Values of a field: one number per (time step, latitude, longitude), all
\* distinct inside a dataset so that a wrong cell or time step shows.
TempField(times, lat, lon) ==
    [k \in DOMAIN times |-> [i \in DOMAIN lat |-> [j \in DOMAIN lon |->
        28000 + 100 * times[k] + 10 * i + j]]]
PrecipField(times, lat, lon) ==
    [k \in DOMAIN times |-> [i \in DOMAIN lat |-> [j \in DOMAIN lon |->
        10 * times[k] + 3 * i + j]]]

\* A gridded dataset exposing the time axis under the names tn, temperature
\* under the names tv and precipitation under the names pv.
MkDs(tn, tv, pv, times, lat, lon) ==
    [coords |-> [n \in tn |-> times],
     latitude |-> lat,
     longitude |-> lon,
     data_vars |-> [v \in tv \cup pv |->
        IF v \in tv THEN TempField(times, lat, lon)
                    ELSE PrecipField(times, lat, lon)]]

\* Time axes of the replies modelled for whole runs.
TimeAxes == {<<0>>, <<0, 1>>, <<1, 2>>}

\* A single grid file holds both variables; any subset of the aliases of a
\* concept may be exposed (none at all after an upstream format change).
SingleGrids ==
    {[kind |-> "grid", ds |-> MkDs(tn, tv, pv, ta, EraLat, EraLon), entries |-> {}] :
        tn \in SUBSET Range(TimeAliases), tv \in SUBSET Range(TempAliases),
        pv \in SUBSET Range(PrecipAliases), ta \in TimeAxes}

\* The k-th grid entry of an archive: the first holds temperature, the second
\* precipitation, any further one temperature again.
EntryDs(k, tn, aT, aP, tT, tP) ==
    IF k = 2 THEN MkDs({"valid_time"}, {}, {aP}, tP, EraLat, EraLon)
             ELSE MkDs({tn}, {aT}, {}, tT, EraLat, EraLon)

Archives ==
    {[kind |-> "zip", ds |-> NoDs,
      entries |-> {[name |-> GridName(k), ds |-> EntryDs(k, tn, aT, aP, tT, tP)] :
                      k \in 1..n}
                  \cup (IF extra THEN {[name |-> OtherName, ds |-> NoDs]} ELSE {})] :
        n \in 0..MaxEntries, tn \in Range(TimeAliases), aT \in Range(TempAliases),
        aP \in Range(PrecipAliases), tT \in TimeAxes, tP \in TimeAxes,
        extra \in BOOLEAN}

\* What c.retrieve(...) may write to out_nc.
ProviderReplies == SingleGrids \cup Archives

\* Grid files a run of the script on another download left behind.
StaleFiles ==
    {[name |-> GridName(k), ds |-> MkDs({"valid_time"}, {}, {"tp"}, <<0, 1>>, EraLat, EraLon)] :
        k \in {0, 1}}

\* ------------------------------------------------------------------- state
VARIABLES
    lat_pt, lon_pt,                     \* target point
    out_nc, workdir, out_csv, clim_csv, \* file system
    pc, err,                            \* position of the run, its error
    nc_files, ds_temp, ds_precip,       \* Load
    pt_temp, pt_precip,                 \* Select
    time_dim, time, temp_var, precip_var, t2m, precip,  \* Extract
    t2m_c, precip_mm,                   \* Convert
    df, clim,                           \* Assemble, Climatology
    contacted, existedAtStart, lastGood \* history of the runs

params == <<lat_pt, lon_pt>>
fs == <<out_nc, workdir, out_csv, clim_csv>>
loaded == <<nc_files, ds_temp, ds_precip>>
points == <<pt_temp, pt_precip>>
extracted == <<time_dim, time, temp_var, precip_var, t2m, precip>>
converted == <<t2m_c, precip_mm>>
tables == <<df, clim>>
hist == <<contacted, existedAtStart, lastGood>>
vars == <<params, fs, pc, err, loaded, points, extracted, converted, tables, hist>>

\* Names not yet bound in this run.
FreshRun ==
    /\ err = "none"
    /\ nc_files = <<>> /\ ds_temp = NoDs /\ ds_precip = NoDs
    /\ pt_temp = NoPt /\ pt_precip = NoPt
    /\ time_dim = "unbound" /\ temp_var = "unbound" /\ precip_var = "unbound"
    /\ time = <<>> /\ t2m = <<>> /\ precip = <<>>
    /\ t2m_c = <<>> /\ precip_mm = <<>>
    /\ df = <<>> /\ clim = <<>>
    /\ contacted = FALSE

\* Before the first run: no raw file, no tables, a working directory that may
\* hold grid files of another download.
Init ==
    /\ lat_pt = LatPt /\ lon_pt = LonPt
    /\ out_nc = NoFile
    /\ workdir \in SUBSET StaleFiles
    /\ out_csv = NoTable /\ clim_csv = NoTable
    /\ pc = "fetch"
    /\ FreshRun
    /\ existedAtStart = FALSE
    /\ lastGood = <<NoTable, NoTable>>

\* The interpreter raises: the run ends on the spot.
Raise(e) == pc' = "error" /\ err' = e

\* ------------------------------------------------------- 1) lines 47-65
\* A mutant of Fetch: the download is requested whether or not out_nc exists.
FetchAlways ==
    /\ pc = "fetch"
    /\ contacted' = TRUE
    /\ \/ \E f \in ProviderReplies :
            out_nc' = f /\ pc' = "load" /\ err' = err
       \/ out_nc' = out_nc /\ Raise("TransportError")
    /\ UNCHANGED <<params, workdir, out_csv, clim_csv, loaded, points, extracted,
                   converted, tables, existedAtStart, lastGood>>

\* if not os.path.exists(out_nc): c.retrieve(..., out_nc)
Fetch ==
    /\ pc = "fetch"
    /\ IF out_nc = NoFile
       THEN /\ contacted' = TRUE
            /\ \/ \E f \in ProviderReplies :
                    out_nc' = f /\ pc' = "load" /\ err' = err
               \/ out_nc' = out_nc /\ Raise("TransportError")
       ELSE /\ pc' = "load"
            /\ UNCHANGED <<out_nc, contacted, err>>
    /\ UNCHANGED <<params, workdir, out_csv, clim_csv, loaded, points, extracted,
                   converted, tables, existedAtStart, lastGood>>

\* ------------------------------------------------------- 2) lines 70-101
\* zip_ref.extractall('.'): entries replace files of the same name.
ExtractAll(dir, entries) ==
    {f \in dir : \A e \in entries : e.name # f.name} \cup entries

\* The files glob.glob('data_stream-*.nc') finds in a directory.
Glob(dir) == {f \in dir : MatchesPattern(f.name)}

\* if 't2m' in ds1.data_vars: (ds1, ds2) else: (ds2, ds1)
AssignTempPrecip(ds1, ds2) ==
    IF "t2m" \in DOMAIN ds1.data_vars THEN <<ds1, ds2>> ELSE <<ds2, ds1>>

Load ==
    /\ pc = "load"
    /\ IF out_nc.kind = "zip"
       THEN /\ workdir' = ExtractAll(workdir, out_nc.entries)
            /\ \E files \in Perms(Glob(workdir')) :
                 /\ nc_files' = files
                 /\ IF Len(files) = 2
                    THEN /\ ds_temp' = AssignTempPrecip(files[1].ds, files[2].ds)[1]
                         /\ ds_precip' = AssignTempPrecip(files[1].ds, files[2].ds)[2]
                         /\ pc' = "select" /\ err' = err
                    ELSE /\ Raise("ValueError: count")
                         /\ UNCHANGED <<ds_temp, ds_precip>>
       ELSE /\ ds_temp' = out_nc.ds /\ ds_precip' = out_nc.ds
            /\ pc' = "select" /\ err' = err
            /\ UNCHANGED <<workdir, nc_files>>
    /\ UNCHANGED <<params, out_nc, out_csv, clim_csv, points, extracted, converted,
                   tables, hist>>

\* ------------------------------------------------------- lines 103-105
\* is_monotonic_increasing of a coordinate index
Increasing(axis) == \A i \in 1..(Len(axis) - 1) : axis[i] <= axis[i + 1]

\* get_indexer(method='pad'): the last position whose coordinate does not come
\* after x in the axis order; 0 when there is none.
PadIdx(axis, x) ==
    LET S == {i \in DOMAIN axis : IF Increasing(axis) THEN axis[i] <= x ELSE axis[i] >= x}
    IN IF S = {} THEN 0 ELSE CHOOSE i \in S : \A j \in S : j <= i

\* get_indexer(method='backfill'): the first position whose coordinate does not
\* come before x in the axis order; 0 when there is none.
BackfillIdx(axis, x) ==
    LET S == {i \in DOMAIN axis : IF Increasing(axis) THEN axis[i] >= x ELSE axis[i] <= x}
    IN IF S = {} THEN 0 ELSE CHOOSE i \in S : \A j \in S : i <= j

\* The coordinate an indexer reads; a missing position reads the last one.
Take(axis, i) == IF i = 0 THEN axis[Len(axis)] ELSE axis[i]

\* A mutant of NearestIdx: method='pad' instead of method='nearest'.
NearestIdxPad(axis, x) ==
    IF PadIdx(axis, x) = 0 THEN BackfillIdx(axis, x) ELSE PadIdx(axis, x)

\* get_indexer(method='nearest'): the closer of the pad and backfill positions;
\* on a tie the backfill position of an increasing axis, the pad position of a
\* decreasing one.
NearestIdx(axis, x) ==
    LET left == PadIdx(axis, x)
        right == BackfillIdx(axis, x)
        ld == Abs(x - Take(axis, left))
        rd == Abs(x - Take(axis, right))
        closer == IF Increasing(axis) THEN ld < rd ELSE ld <= rd
    IN IF closer \/ right = 0 THEN left ELSE right

\* ds.sel(latitude=la, longitude=lo, method='nearest')
Sel(ds, la, lo) ==
    LET i == NearestIdx(ds.latitude, la)
        j == NearestIdx(ds.longitude, lo)
    IN [coords |-> ds.coords,
        latitude |-> ds.latitude[i],
        longitude |-> ds.longitude[j],
        data_vars |-> [v \in DOMAIN ds.data_vars |->
            [k \in DOMAIN ds.data_vars[v] |-> ds.data_vars[v][k][i][j]]]]

Select ==
    /\ pc = "select"
    /\ pt_temp' = Sel(ds_temp, lat_pt, lon_pt)
    /\ pt_precip' = Sel(ds_precip, lat_pt, lon_pt)
    /\ pc' = "extract"
    /\ UNCHANGED <<params, fs, err, loaded, extracted, converted, tables, hist>>

\* ------------------------------------------------------- lines 107-120
\* time_dim = 'valid_time' if 'valid_time' in pt_temp.coords else 'time'
ResolveTimeDim(pt) == IF "valid_time" \in DOMAIN pt.coords THEN "valid_time" ELSE "time"

\* A mutant of ResolveTempVar: the aliases tested in the other order.
ResolveTempVarSwapped(pt) ==
    IF "2m_temperature" \in DOMAIN pt.data_vars THEN "2m_temperature" ELSE "t2m"

\* temp_var = 't2m' if 't2m' in pt_temp.data_vars else '2m_temperature'
ResolveTempVar(pt) ==
    IF "t2m" \in DOMAIN pt.data_vars THEN "t2m" ELSE "2m_temperature"

\* precip_var = 'tp' if 'tp' in pt_precip.data_vars else 'total_precipitation'
ResolvePrecipVar(pt) ==
    IF "tp" \in DOMAIN pt.data_vars THEN "tp" ELSE "total_precipitation"

\* pt[name]: a coordinate or a data variable; KeyError when there is neither.
Exposes(pt, name) == name \in (DOMAIN pt.coords) \cup (DOMAIN pt.data_vars)
GetItem(pt, name) ==
    IF name \in DOMAIN pt.coords THEN pt.coords[name] ELSE pt.data_vars[name]

Extract ==
    /\ pc = "extract"
    /\ time_dim' = ResolveTimeDim(pt_temp)
    /\ IF ~Exposes(pt_temp, time_dim')
       THEN /\ Raise("KeyError")
            /\ UNCHANGED <<time, temp_var, precip_var, t2m, precip>>
       ELSE /\ time' = GetItem(pt_temp, time_dim')
            /\ temp_var' = ResolveTempVar(pt_temp)
            /\ precip_var' = ResolvePrecipVar(pt_precip)
            /\ IF ~Exposes(pt_temp, temp_var')
               THEN /\ Raise("KeyError")
                    /\ UNCHANGED <<t2m, precip>>
               ELSE /\ t2m' = GetItem(pt_temp, temp_var')
                    /\ IF ~Exposes(pt_precip, precip_var')
                       THEN /\ Raise("KeyError")
                            /\ UNCHANGED precip
                       ELSE /\ precip' = GetItem(pt_precip, precip_var')
                            /\ pc' = "convert" /\ err' = err
    /\ UNCHANGED <<params, fs, loaded, points, converted, tables, hist>>

\* ------------------------------------------------------- lines 122-126
Convert ==
    /\ pc = "convert"
    /\ t2m_c' = [k \in DOMAIN t2m |-> t2m[k] - KelvinOffset]
    /\ precip_mm' = [k \in DOMAIN precip |-> precip[k] * MmPerM]
    /\ pc' = "assemble"
    /\ UNCHANGED <<params, fs, err, loaded, points, extracted, tables, hist>>

\* ------------------------------------------------------- 3) lines 128-142
\* pd.to_datetime(time).year / .month
YearOf(ts) == BaseYear + (ts \div MonthsPerYear)
MonthOf(ts) == (ts % MonthsPerYear) + 1

\* Row a comes no later than row b in the order of sort_values(['year','month']).
KeyLeq(a, b) == a.year < b.year \/ (a.year = b.year /\ a.month <= b.month)

RECURSIVE InsertRow(_, _)
InsertRow(r, sorted) ==
    IF sorted = <<>> THEN <<r>>
    ELSE IF KeyLeq(Head(sorted), r) THEN <<Head(sorted)>> \o InsertRow(r, Tail(sorted))
    ELSE <<r>> \o sorted

RECURSIVE SortRows(_)
SortRows(rows) ==
    IF rows = <<>> THEN <<>>
    ELSE InsertRow(rows[Len(rows)], SortRows(SubSeq(rows, 1, Len(rows) - 1)))

\* A mutant of SortValues: the frame is left in the order of the time axis.
SortValuesSkipped(rows) == rows

\* df.sort_values(['year','month']).reset_index(drop=True)
SortValues(rows) == SortRows(rows)

\* The frame built from the columns, before sorting.
Frame(ts, tc, pm) ==
    [k \in DOMAIN ts |->
        [year |-> YearOf(ts[k]), month |-> MonthOf(ts[k]),
         t2m_mean_C |-> tc[k], precip_total_mm |-> pm[k]]]

\* A mutant of Assemble: the monthly CSV is opened for writing before the
\* frame is built, so a failing build leaves it truncated.
AssembleWritesFirst ==
    /\ pc = "assemble"
    /\ IF Len(t2m_c) # Len(time) \/ Len(precip_mm) # Len(time)
       THEN /\ Raise("ValueError: length")
            /\ df' = df
            /\ out_csv' = [exists |-> TRUE, rows |-> <<>>]
       ELSE /\ df' = SortValues(Frame(time, t2m_c, precip_mm))
            /\ pc' = "persist" /\ err' = err
            /\ out_csv' = out_csv
    /\ UNCHANGED <<params, out_nc, workdir, clim_csv, loaded, points, extracted,
                   converted, clim, hist>>

Assemble ==
    /\ pc = "assemble"
    /\ IF Len(t2m_c) # Len(time) \/ Len(precip_mm) # Len(time)
       THEN /\ Raise("ValueError: length")
            /\ df' = df
       ELSE /\ df' = SortValues(Frame(time, t2m_c, precip_mm))
            /\ pc' = "persist" /\ err' = err
    /\ UNCHANGED <<params, fs, loaded, points, extracted, converted, clim, hist>>

\* ------------------------------------------------------- lines 144-146
\* df.to_csv(out_csv, index=False)
PersistMonthly ==
    /\ pc = "persist"
    /\ out_csv' = [exists |-> TRUE, rows |-> df]
    /\ pc' = "clim"
    /\ UNCHANGED <<params, out_nc, workdir, clim_csv, err, loaded, points, extracted,
                   converted, tables, hist>>

\* ------------------------------------------------------- 4) lines 148-151
\* A mean as an exact fraction in lowest terms.
Mean(vals) ==
    LET s == SumSeq(vals)
        g == Gcd(Abs(s), Len(vals))
    IN [num |-> s \div g, den |-> Len(vals) \div g]

RECURSIVE Ascending(_)
Ascending(S) ==
    IF S = {} THEN <<>>
    ELSE LET m == CHOOSE x \in S : \A y \in S : x <= y
         IN <<m>> \o Ascending(S \ {m})

Column(rows, f) == [k \in DOMAIN rows |-> rows[k][f]]

\* A mutant of GroupByMonthMean: the groups of df.groupby(['year','month']),
\* one row per (year, month).
GroupByYearMonthMean(rows) ==
    [k \in DOMAIN rows |->
        [month |-> rows[k].month,
         t2m_mean_C |-> Mean(<<rows[k].t2m_mean_C>>),
         precip_total_mm |-> Mean(<<rows[k].precip_total_mm>>)]]

\* df.groupby('month')[['t2m_mean_C','precip_total_mm']].mean().reset_index()
GroupByMonthMean(rows) ==
    LET keys == Ascending({rows[k].month : k \in DOMAIN rows})
        Group(m) == SelectSeq(rows, LAMBDA r : r.month = m)
    IN [g \in DOMAIN keys |->
          [month |-> keys[g],
           t2m_mean_C |-> Mean(Column(Group(keys[g]), "t2m_mean_C")),
           precip_total_mm |-> Mean(Column(Group(keys[g]), "precip_total_mm"))]]

Climatology ==
    /\ pc = "clim"
    /\ clim' = GroupByMonthMean(df)
    /\ clim_csv' = [exists |-> TRUE, rows |-> clim']
    /\ pc' = "done"
    /\ lastGood' = <<out_csv, clim_csv'>>
    /\ UNCHANGED <<params, out_nc, workdir, out_csv, err, loaded, points, extracted,
                   converted, df, contacted, existedAtStart>>

\* ------------------------------------------------------------ the next run
\* The script is started again on the file system the last run left.
Start ==
    /\ pc \in {"done", "error"}
    /\ pc' = "fetch"
    /\ err' = "none"
    /\ nc_files' = <<>> /\ ds_temp' = NoDs /\ ds_precip' = NoDs
    /\ pt_temp' = NoPt /\ pt_precip' = NoPt
    /\ time_dim' = "unbound" /\ temp_var' = "unbound" /\ precip_var' = "unbound"
    /\ time' = <<>> /\ t2m' = <<>> /\ precip' = <<>>
    /\ t2m_c' = <<>> /\ precip_mm' = <<>>
    /\ df' = <<>> /\ clim' = <<>>
    /\ contacted' = FALSE
    /\ existedAtStart' = (out_nc # NoFile)
    /\ UNCHANGED <<params, fs, lastGood>>

Run ==
    \/ Fetch \/ Load \/ Select \/ Extract \/ Convert \/ Assemble
    \/ PersistMonthly \/ Climatology

Next == Run \/ Start

Spec == Init /\ [][Next]_vars

\* ------------------------------------------------- runs on a cached raw file
\* The raw file is already there (the script skips the download) and holds
\* any series of at most MaxLen time steps: time stamps in any order and with
\* repeats (January and December of BaseYear, January of the next year), two
\* temperatures, two precipitation amounts.
Stamps == {0, 11, 12}
Kelvins == {29615, 26820}
Metres == {0, 123}

SeriesDs(ts, tv, pv) ==
    [coords |-> [n \in {"valid_time"} |-> ts],
     latitude |-> EraLat,
     longitude |-> EraLon,
     data_vars |-> [v \in {"t2m", "tp"} |->
        [k \in DOMAIN ts |-> [i \in DOMAIN EraLat |-> [j \in DOMAIN EraLon |->
            IF v = "t2m" THEN tv[k] ELSE pv[k]]]]]]

InitTable ==
    /\ lat_pt = LatPt /\ lon_pt = LonPt
    /\ \E n \in 0..MaxLen :
         \E ts \in [1..n -> Stamps], tv \in [1..n -> Kelvins], pv \in [1..n -> Metres] :
            out_nc = [kind |-> "grid", ds |-> SeriesDs(ts, tv, pv), entries |-> {}]
    /\ workdir = {}
    /\ out_csv = NoTable /\ clim_csv = NoTable
    /\ pc = "fetch"
    /\ FreshRun
    /\ existedAtStart = TRUE
    /\ lastGood = <<NoTable, NoTable>>

SpecTable == InitTable /\ [][Run]_vars

\* The raw file is already there and holds a grid on any strictly monotonic
\* latitude and longitude axes of at most MaxAxis coordinates; the target is
\* any of a few points of the bounding region (on a coordinate, halfway
\* between two, the script's own point, the far edge).
LatCoords == {432500 + 2500 * k : k \in 0..(MaxAxis - 1)}
LonCoords == {-40000 + 2500 * k : k \in 0..(MaxAxis - 1)}
LatTargets == {432000, 433750, LatPt, 436000}
LonTargets == {-40000, -38750, LonPt, -36000}

Axes(C) ==
    {a \in UNION {[1..n -> C] : n \in 1..MaxAxis} :
        \/ \A i \in 1..(Len(a) - 1) : a[i] < a[i + 1]
        \/ \A i \in 1..(Len(a) - 1) : a[i] > a[i + 1]}

InitSelect ==
    /\ lat_pt \in LatTargets /\ lon_pt \in LonTargets
    /\ \E la \in Axes(LatCoords), lo \in Axes(LonCoords) :
         out_nc = [kind |-> "grid", entries |-> {},
                   ds |-> MkDs({"valid_time"}, {"t2m"}, {"tp"}, <<0, 1>>, la, lo)]
    /\ workdir = {}
    /\ out_csv = NoTable /\ clim_csv = NoTable
    /\ pc = "fetch"
    /\ FreshRun
    /\ existedAtStart = TRUE
    /\ lastGood = <<NoTable, NoTable>>

NextSelect == Fetch \/ Load \/ Select

SpecSelect == InitSelect /\ [][NextSelect]_vars

\* =================================================================== claims
\* The run has left the named stage behind, with or without an error.
PastLoad == pc \notin {"fetch", "load"} /\ err # "TransportError"
PastExtract ==
    /\ pc \notin {"fetch", "load", "select", "extract"}
    /\ err \notin {"TransportError", "ValueError: count"}

\* The first alias, in preference order, among the names; "none" without one.
FirstPresent(aliases, names) ==
    LET S == {i \in DOMAIN aliases : aliases[i] \in names}
    IN IF S = {} THEN "none" ELSE aliases[CHOOSE i \in S : \A j \in S : i <= j]

HasTemp(ds) == Range(TempAliases) \cap DOMAIN ds.data_vars # {}
HasPrecip(ds) == Range(PrecipAliases) \cap DOMAIN ds.data_vars # {}

\* The time axis of a dataset, under whichever alias it exposes.
TimeAxisOf(ds) ==
    LET n == FirstPresent(TimeAliases, DOMAIN ds.coords)
    IN IF n = "none" THEN <<>> ELSE ds.coords[n]

RECURSIVE SumOver(_, _, _)
SumOver(rows, S, f) ==
    IF S = {} THEN 0
    ELSE LET k == CHOOSE x \in S : TRUE
         IN rows[k][f] + SumOver(rows, S \ {k}, f)

\* C1: with a compressed container as raw file, the run goes on to the
\* extraction if and only if the grid files extracted from this archive
\* that match the pattern number exactly two, whatever the working directory
\* held before; otherwise it fails on the count and writes neither table.
C1_CountOfThisArchive ==
    (out_nc.kind = "zip" /\ PastLoad) =>
        /\ (Cardinality(Glob(out_nc.entries)) = 2) <=> (err # "ValueError: count")
        /\ (err = "ValueError: count") => (<<out_csv, clim_csv>> = lastGood)

\* C2: each concept (time dimension, temperature, precipitation) is bound to
\* the first alias, in the fixed preference order, that its dataset exposes,
\* and its series is read through that name; when a dataset exposes no alias
\* of a concept the run fails on the lookup; no series is ever read through a
\* name the dataset does not expose.
C2_FirstPresentAlias ==
    PastExtract =>
        LET ft == FirstPresent(TimeAliases, DOMAIN pt_temp.coords)
            fT == FirstPresent(TempAliases, DOMAIN pt_temp.data_vars)
            fP == FirstPresent(PrecipAliases, DOMAIN pt_precip.data_vars)
        IN /\ IF "none" \in {ft, fT, fP}
              THEN pc = "error" /\ err = "KeyError" /\ precip = <<>>
              ELSE /\ err # "KeyError"
                   /\ time_dim = ft /\ temp_var = fT /\ precip_var = fP
                   /\ time = pt_temp.coords[ft]
                   /\ t2m = pt_temp.data_vars[fT]
                   /\ precip = pt_precip.data_vars[fP]
           /\ time # <<>> => time_dim \in DOMAIN pt_temp.coords
           /\ t2m # <<>> => temp_var \in DOMAIN pt_temp.data_vars
           /\ precip # <<>> => precip_var \in DOMAIN pt_precip.data_vars

\* C2 witness: a run that got past the lookups with every concept bound to
\* its second alias.
C2_Witness ==
    /\ pc = "convert"
    /\ time_dim = "time" /\ temp_var = "2m_temperature"
    /\ precip_var = "total_precipitation"

\* C3: when the archive yields two grid datasets (the two the run loads), one
\* holding a temperature variable and the other a precipitation variable,
\* "temperature" is mapped to the former and "precipitation" to the latter,
\* in either enumeration order and under either alias of each variable.
C3_MappedByContent ==
    (/\ out_nc.kind = "zip" /\ PastLoad /\ err # "ValueError: count"
     /\ Range(nc_files) = Glob(out_nc.entries)
     /\ \E a, b \in {1, 2} :
          /\ a # b
          /\ HasTemp(nc_files[a].ds) /\ ~HasPrecip(nc_files[a].ds)
          /\ HasPrecip(nc_files[b].ds) /\ ~HasTemp(nc_files[b].ds))
    => (HasTemp(ds_temp) /\ HasPrecip(ds_precip))

\* C4: the monthly table is built only when the temperature and the
\* precipitation series have the same time axis (same length, same time stamp
\* at every position); otherwise the run fails before any row is built.
\* (Stated for the runs that load the raw file's own datasets.)
C4_AlignedOrError ==
    (/\ pc \in {"persist", "clim", "done"} \/ (pc = "error" /\ err = "ValueError: length")
     /\ out_nc.kind = "zip" => Range(nc_files) = Glob(out_nc.entries))
        => ((TimeAxisOf(pt_temp) = TimeAxisOf(pt_precip)) <=> (pc # "error"))

\* C5: a run that ends in an error leaves both tables with exactly the
\* content the last successful run gave them.
C5_ErrorPreservesOutputs ==
    pc = "error" => <<out_csv, clim_csv>> = lastGood

\* C5 witness: a run fails on a lookup after an earlier run wrote both tables.
C5_Witness ==
    /\ pc = "error" /\ err = "KeyError"
    /\ out_csv.exists /\ clim_csv.exists

\* C6: the provider is contacted in a run only if the raw file did not exist
\* when the run started; a raw file, once written, is never rewritten; and a
\* run that reaches the persistence steps overwrites each CSV with what it
\* computed, whatever the file held.
C6_FetchOnce ==
    [][/\ (contacted' /\ ~contacted) => (out_nc = NoFile /\ ~existedAtStart)
       /\ (out_nc # NoFile) => (out_nc' = out_nc)
       /\ (pc = "persist") => (out_csv' = [exists |-> TRUE, rows |-> df])
       /\ (pc = "clim") => (clim_csv' = [exists |-> TRUE, rows |-> clim'])]_vars

\* C6 witness: a run that started with the raw file in place completes,
\* and overwrites both tables, without contacting the provider.
C6_Witness ==
    /\ pc = "done" /\ existedAtStart /\ ~contacted
    /\ lastGood[1].exists

\* C7: whatever the order of the time stamps, the persisted monthly table is
\* sorted ascending by (year, month) and every month is in 1..12.
C7_SortedMonths ==
    out_csv.exists =>
        LET M == out_csv.rows
        IN /\ \A k \in 1..(Len(M) - 1) :
                \/ M[k].year < M[k + 1].year
                \/ (M[k].year = M[k + 1].year /\ M[k].month <= M[k + 1].month)
           /\ \A k \in DOMAIN M : M[k].month \in 1..12

\* C7 witness: a table persisted from a time axis that arrived descending
\* across a year boundary.
C7_Witness ==
    /\ out_csv.exists /\ Len(time) >= 2
    /\ time[1] = 12 /\ time[2] = 11

\* C8: no two rows of a persisted monthly table share year and month, also
\* when the source time axis repeats a (year, month).
C8_UniquePairs ==
    out_csv.exists =>
        \A i, j \in DOMAIN out_csv.rows :
            (/\ out_csv.rows[i].year = out_csv.rows[j].year
             /\ out_csv.rows[i].month = out_csv.rows[j].month) => i = j

\* C9: the climatology has exactly one row for each calendar month of the
\* monthly table and none for any other month, sorted by month ascending,
\* each value the unweighted mean over all monthly rows of that month; a
\* one-row monthly table gives a one-row climatology.
C9_Climatology ==
    pc = "done" =>
        LET M == out_csv.rows
            C == clim_csv.rows
            Rows(m) == {k \in DOMAIN M : M[k].month = m}
        IN /\ clim_csv.exists
           /\ \A m \in 1..12 :
                Cardinality({g \in DOMAIN C : C[g].month = m})
                    = IF Rows(m) = {} THEN 0 ELSE 1
           /\ \A g \in DOMAIN C : C[g].month \in 1..12
           /\ \A g \in 1..(Len(C) - 1) : C[g].month < C[g + 1].month
           /\ \A g \in DOMAIN C :
                LET n == Cardinality(Rows(C[g].month))
                IN /\ C[g].t2m_mean_C.den > 0 /\ C[g].precip_total_mm.den > 0
                   /\ C[g].t2m_mean_C.num * n
                        = C[g].t2m_mean_C.den * SumOver(M, Rows(C[g].month), "t2m_mean_C")
                   /\ C[g].precip_total_mm.num * n
                        = C[g].precip_total_mm.den
                            * SumOver(M, Rows(C[g].month), "precip_total_mm")
           /\ Len(M) = 1 => Len(C) = 1

\* C9 witness: three monthly rows, two of them the same month of different
\* years with different temperatures, averaged into one of two rows.
C9_Witness ==
    /\ pc = "done" /\ Len(out_csv.rows) = 3 /\ Len(clim_csv.rows) = 2
    /\ \E g \in DOMAIN clim_csv.rows : clim_csv.rows[g].t2m_mean_C.den = 2

\* The point dataset pt is the cell of ds nearest to the target on each axis.
AtNearestCell(ds, pt) ==
    /\ \E i \in DOMAIN ds.latitude, j \in DOMAIN ds.longitude :
         /\ pt.latitude = ds.latitude[i] /\ pt.longitude = ds.longitude[j]
         /\ DOMAIN pt.data_vars = DOMAIN ds.data_vars
         /\ \A v \in DOMAIN ds.data_vars :
              /\ Len(pt.data_vars[v]) = Len(ds.data_vars[v])
              /\ \A k \in DOMAIN ds.data_vars[v] :
                   pt.data_vars[v][k] = ds.data_vars[v][k][i][j]
    /\ \A i \in DOMAIN ds.latitude :
         Abs(pt.latitude - lat_pt) <= Abs(ds.latitude[i] - lat_pt)
    /\ \A j \in DOMAIN ds.longitude :
         Abs(pt.longitude - lon_pt) <= Abs(ds.longitude[j] - lon_pt)

\* C10: on the latitude axis and on the longitude axis the selected
\* coordinate is one of the axis and no coordinate of the axis is strictly
\* closer to the target; both series are the field's values at that cell for
\* every time step.
C10_NearestCell ==
    pc = "extract" => (AtNearestCell(ds_temp, pt_temp) /\ AtNearestCell(ds_precip, pt_precip))

\* C10 witness: a three-point descending latitude axis and a three-point
\* ascending longitude axis, the script's own target between coordinates.
C10_Witness ==
    /\ pc = "extract" /\ lat_pt = LatPt /\ lon_pt = LonPt
    /\ ds_temp.latitude = <<437500, 435000, 432500>>
    /\ ds_temp.longitude = <<-40000, -37500, -35000>>
    /\ pt_temp.latitude = 435000 /\ pt_temp.longitude = -37500
====
